---- MODULE Spec2Model ----
(***************************************************************************)
(* Model of dong/company_financials.py: the quarterly-to-daily alignment   *)
(* (expand_to_daily), the derived metrics (calculate_trailing_eps, daily   *)
(* PER, YoY growth) and the control flow of main / process_company with    *)
(* its per-step exception handling; of the batched dispatch loop of       *)
(* dong/gemini_finance.py (the same loop is in gemini_news.py and          *)
(* gemini_macroeconomics.py); and of parse_json_output of gemini_call.py.  *)
(*                                                                         *)
(* Representation.  A pandas cell is an option: None (NaN / None, what     *)
(* pd.isna answers True for) or Some(v).  A DataFrame is a sequence of     *)
(* rows [date |-> d, cols |-> [column name -> cell]]; a DataFrame with no   *)
(* row or with no column is "empty" as DataFrame.empty has it.  Floats are *)
(* exact rationals <<numerator, denominator>> with denominator > 0.        *)
(***************************************************************************)
EXTENDS Integers, Sequences, FiniteSets, TLC

VARIABLES
    pc,             \* position of the specification's run
    quarterly_df,   \* expand_to_daily: the quarterly table passed in
    daily_index,    \* expand_to_daily: the daily index passed in
    expanded,       \* expand_to_daily: the table returned
    income_stmt,    \* ticker.quarterly_income_stmt: one entry per column
                    \* (quarter), cols = the statement's row labels
    shares,         \* ticker.info.get("sharesOutstanding", None)
    ttm_eps_df,     \* the table calculate_trailing_eps returns
    stock_df,       \* the daily prices, column "price" (the close price in USD)
    ttm_eps_daily,  \* process_company: ttm_eps_df aligned to the days
    result_df,      \* process_company: the merged daily table
    financials_df,  \* the table get_quarterly_financials returns, then
                    \* sorted and given its YoY columns by process_company
    eps_df,         \* the table get_eps_data returns
    buyback_df,     \* the table get_buyback_data returns
    mapped,         \* main: per company of the list, whether
                    \* COMPANY_TICKERS has its ticker
    company,        \* main: the company the loop of line 389 is at
    outcome,        \* per company, how its processing ended
    group,          \* process_company: the metric group at work (1..4)
    n_rows,         \* the columns / rows the fetcher's source holds
    col_idx,        \* the fetcher's loop position
    results,        \* the fetcher's results list (the columns appended)
    group_result,   \* per group, the rows of the table its fetcher returned
    raised,         \* per group, where its fetcher raised in this company's
                    \* run: 0 in the fetch, j in the loop iteration of column j
    failed_step,    \* the step whose exception left main, "none" if none
    tasks,          \* dispatch loop: the (date, text) tasks, in order
    batch_idx,      \* dispatch loop: the index range(0, len(tasks), BATCH_SIZE)
                    \* is at
    status,         \* per task, where its call_gemini call (its future) is
    yielded,        \* the futures as_completed has handed to the loop body
    gemini_results, \* dispatch loop: the results list
    success_count,  \* dispatch loop: the calls recorded as returned
    error_count,    \* dispatch loop: the calls recorded as raised
    batches,        \* the executors opened so far, one per batch
    sleeps,         \* the time.sleep(BATCH_DELAY) calls made so far
    submits,        \* per task, the executor.submit calls made for it
    response_text,  \* parse_json_output: the text passed in
    parse_outcome   \* parse_json_output: what it returned or raised

alignVars == <<quarterly_df, daily_index, expanded>>

metricVars == <<income_stmt, shares, ttm_eps_df, stock_df, ttm_eps_daily,
                result_df, financials_df, eps_df, buyback_df>>

runVars == <<mapped, company, outcome, group, n_rows, col_idx, results, group_result,
             raised, failed_step>>

dispatchVars == <<tasks, batch_idx, status, yielded, gemini_results, success_count,
                  error_count, batches, sleeps, submits>>

parseVars == <<response_text, parse_outcome>>

llmVars == <<dispatchVars, parseVars>>

vars == <<pc, alignVars, metricVars, runVars, llmVars>>

\* the variables of a part of the program a specification does not run
AlignIdle == quarterly_df = <<>> /\ daily_index = <<>> /\ expanded = <<>>

MetricIdle ==
    /\ income_stmt = <<>>
    /\ shares = <<>>
    /\ ttm_eps_df = <<>>
    /\ stock_df = <<>>
    /\ ttm_eps_daily = <<>>
    /\ result_df = <<>>
    /\ financials_df = <<>>
    /\ eps_df = <<>>
    /\ buyback_df = <<>>

RunIdle ==
    /\ mapped = <<>>
    /\ company = 0
    /\ outcome = <<>>
    /\ group = 0
    /\ n_rows = 0
    /\ col_idx = 0
    /\ results = <<>>
    /\ group_result = <<>>
    /\ raised = <<>>
    /\ failed_step = "none"

DispatchIdle ==
    /\ tasks = <<>>
    /\ batch_idx = 0
    /\ status = <<>>
    /\ yielded = {}
    /\ gemini_results = <<>>
    /\ success_count = 0
    /\ error_count = 0
    /\ batches = 0
    /\ sleeps = 0
    /\ submits = <<>>

ParseIdle == response_text = <<>> /\ parse_outcome = <<>>

LlmIdle == DispatchIdle /\ ParseIdle

-----------------------------------------------------------------------------
(* Bounds of the model *)

\* dates are 1..MaxDate
MaxDate == 4

\* most rows of the quarterly table given to expand_to_daily
MaxQuarters == 3

-----------------------------------------------------------------------------
(* Cells and tables *)

None == <<>>

Some(v) == <<v>>

\* pd.isna / pd.notna on one cell
IsNa(cell) == cell = None

NotNa(cell) == cell # None

Dates == 1..MaxDate

\* DataFrame.columns without the date column
Columns(df) == IF df = <<>> THEN {} ELSE DOMAIN df[1].cols

\* DataFrame.empty: some axis has length 0
IsEmpty(df) == Len(df) = 0 \/ Columns(df) = {}

\* the dates of a table, as a set
DateSet(df) == {df[i].date : i \in DOMAIN df}

SeqRange(s) == {s[i] : i \in DOMAIN s}

RECURSIVE SetToSortedSeq(_)
\* Index.sort_values on a set of distinct dates
SetToSortedSeq(S) ==
    IF S = {} THEN <<>>
    ELSE LET m == CHOOSE x \in S : \A y \in S : x <= y
         IN  <<m>> \o SetToSortedSeq(S \ {m})

RECURSIVE InsertRow(_, _)
InsertRow(r, s) ==
    IF s = <<>> THEN <<r>>
    ELSE IF r.date < Head(s).date THEN <<r>> \o s
    ELSE <<Head(s)>> \o InsertRow(r, Tail(s))

RECURSIVE SortValues(_)
\* DataFrame.sort_values(date_col): ascending by date
SortValues(df) ==
    IF df = <<>> THEN <<>>
    ELSE InsertRow(df[Len(df)], SortValues(SubSeq(df, 1, Len(df) - 1)))

\* Index.union(daily_index).sort_values()
IndexUnion(df, index) == SetToSortedSeq(DateSet(df) \cup SeqRange(index))

\* DataFrame.reindex(index): the row of each date of index, a row of NaN
\* where df has no such date
Reindex(df, index) ==
    [i \in 1..Len(index) |->
        IF index[i] \in DateSet(df)
        THEN LET j == CHOOSE j \in DOMAIN df : df[j].date = index[i] IN df[j]
        ELSE [date |-> index[i], cols |-> [c \in Columns(df) |-> None]]]

RECURSIVE FfillCell(_, _, _)
FfillCell(df, i, c) ==
    IF NotNa(df[i].cols[c]) \/ i = 1 THEN df[i].cols[c]
    ELSE FfillCell(df, i - 1, c)

\* the mutant of Ffill: the forward fill left out
FfillOmitted(df) == df

\* DataFrame.ffill(): per column, a missing cell takes the last cell above
\* it that is not missing
Ffill(df) ==
    [i \in 1..Len(df) |->
        [date |-> df[i].date,
         cols |-> [c \in DOMAIN df[i].cols |-> FfillCell(df, i, c)]]]

RECURSIVE BfillCell(_, _, _)
BfillCell(df, i, c) ==
    IF NotNa(df[i].cols[c]) \/ i = Len(df) THEN df[i].cols[c]
    ELSE BfillCell(df, i + 1, c)

\* the mutant of Bfill: the backward fill left out
BfillOmitted(df) == df

\* DataFrame.bfill(): per column, a missing cell takes the first cell below
\* it that is not missing
Bfill(df) ==
    [i \in 1..Len(df) |->
        [date |-> df[i].date,
         cols |-> [c \in DOMAIN df[i].cols |-> BfillCell(df, i, c)]]]

\* the mutant of EmptyFrame: pd.DataFrame(), no index either
EmptyFrameNoIndex(index) == <<>>

\* pd.DataFrame(index=daily_index): the rows of the index, no column
EmptyFrame(index) == [i \in 1..Len(index) |-> [date |-> index[i], cols |-> <<>>]]

\* the mutant of ExpandToDaily: the last reindex onto daily_index left out
ExpandToDailyUnion(df, index) ==
    IF IsEmpty(df) THEN EmptyFrame(index)
    ELSE LET sorted == SortValues(df)
         IN  Bfill(Ffill(Reindex(sorted, IndexUnion(sorted, index))))

\* the mutant of ExpandToDaily: a forward fill that copies the row above,
\* present or not, instead of the last present cell
ExpandToDailyRowFill(df, index) ==
    IF IsEmpty(df) THEN EmptyFrame(index)
    ELSE LET sorted == SortValues(df)
             union == Reindex(sorted, IndexUnion(sorted, index))
             prev(i) == CHOOSE j \in DOMAIN union :
                            /\ j <= i
                            /\ union[j].date \in DateSet(df)
                            /\ \A k \in DOMAIN union :
                                   (k <= i /\ union[k].date \in DateSet(df)) => k <= j
             filled == [i \in DOMAIN union |->
                           IF \E j \in DOMAIN union :
                                  j <= i /\ union[j].date \in DateSet(df)
                           THEN [date |-> union[i].date, cols |-> union[prev(i)].cols]
                           ELSE union[i]]
         IN  Reindex(Bfill(filled), index)

\* expand_to_daily(quarterly_df, date_col, daily_index); date_col is the
\* date field of the rows
ExpandToDaily(df, index) ==
    IF IsEmpty(df) THEN EmptyFrame(index)
    ELSE LET sorted   == SortValues(df)
             combined == IndexUnion(sorted, index)
             filled   == Bfill(Ffill(Reindex(sorted, combined)))
         IN  Reindex(filled, index)

-----------------------------------------------------------------------------
(* expand_to_daily on every quarterly table and daily index of the bounds *)

MetricVals == {1, 2}

MetricCells == {None} \cup {Some(v) : v \in MetricVals}

QuarterRows == [date : Dates, cols : [{"metric"} -> MetricCells]]

\* quarterly tables: at most MaxQuarters rows in any order, one per date
QuarterlyTables(max) ==
    {q \in UNION {[1..n -> QuarterRows] : n \in 0..max} :
        \A i, j \in DOMAIN q : i # j => q[i].date # q[j].date}

\* daily indexes: ascending, one entry per day
DailyIndexes(dates) == {SetToSortedSeq(S) : S \in SUBSET dates}

InitAlign ==
    /\ pc = "call"
    /\ quarterly_df \in QuarterlyTables(MaxQuarters)
    /\ daily_index \in DailyIndexes(Dates)
    /\ expanded = <<>>
    /\ MetricIdle
    /\ RunIdle
    /\ LlmIdle

ExpandToDailyCall ==
    /\ pc = "call"
    /\ expanded' = ExpandToDaily(quarterly_df, daily_index)
    /\ pc' = "return"
    /\ UNCHANGED <<quarterly_df, daily_index, metricVars, runVars, llmVars>>

NextAlign == ExpandToDailyCall

SpecAlign == InitAlign /\ [][NextAlign]_vars

-----------------------------------------------------------------------------
(* Claims about expand_to_daily, checked under SpecAlign *)

\* the quarterly rows in which column c has a value
PresentRows(c) == {j \in DOMAIN quarterly_df : NotNa(quarterly_df[j].cols[c])}

\* of the rows J, the one with the latest date <= d
LatestUpTo(J, d) ==
    CHOOSE j \in J :
        /\ quarterly_df[j].date <= d
        /\ \A k \in J : quarterly_df[k].date <= d
                            => quarterly_df[k].date <= quarterly_df[j].date

\* of the rows J, the one with the earliest date
Earliest(J) ==
    CHOOSE j \in J : \A k \in J : quarterly_df[j].date <= quarterly_df[k].date

\* C1: the table expand_to_daily returns has exactly the daily index as its
\* index: the same dates in the same order, so as many rows as the index.
C1_IndexIsDailyIndex ==
    pc = "return" =>
        /\ Len(expanded) = Len(daily_index)
        /\ \A i \in DOMAIN expanded : expanded[i].date = daily_index[i]

\* C1 witness: quarters before the first and after the last day, none of
\* them a day of the index, have been aligned.
C1_Witness ==
    /\ pc = "return"
    /\ Len(daily_index) >= 2
    /\ \E j \in DOMAIN quarterly_df : \A i \in DOMAIN daily_index :
           quarterly_df[j].date < daily_index[i]
    /\ \E j \in DOMAIN quarterly_df : \A i \in DOMAIN daily_index :
           quarterly_df[j].date > daily_index[i]

\* C2 as stated: every day carries the metric's cell of the quarterly record
\* with the latest date <= the day, or of the earliest record when there is
\* none, also when that cell holds no value.
C2_LatestRecordValue ==
    (pc = "return" /\ quarterly_df # <<>>) =>
        \A i \in DOMAIN expanded : \A c \in Columns(quarterly_df) :
            LET all == DOMAIN quarterly_df
                d   == expanded[i].date
            IN  expanded[i].cols[c] =
                    IF \E j \in all : quarterly_df[j].date <= d
                    THEN quarterly_df[LatestUpTo(all, d)].cols[c]
                    ELSE quarterly_df[Earliest(all)].cols[c]

\* C2 amended: every day carries the metric's value of the latest quarterly
\* record with date <= the day among the records that have the metric; when
\* there is none, of the earliest record that has it; and no value when no
\* record has it.
C2_LatestPresentValue ==
    (pc = "return" /\ quarterly_df # <<>>) =>
        \A i \in DOMAIN expanded : \A c \in Columns(quarterly_df) :
            LET has == PresentRows(c)
                d   == expanded[i].date
            IN  expanded[i].cols[c] =
                    IF \E j \in has : quarterly_df[j].date <= d
                    THEN quarterly_df[LatestUpTo(has, d)].cols[c]
                    ELSE IF has # {} THEN quarterly_df[Earliest(has)].cols[c]
                    ELSE None

\* C2 witness: a day whose latest record lacks the metric got the value of
\* an older record, and a day before every record got the first value.
C2_Witness ==
    /\ pc = "return"
    /\ \E i \in DOMAIN expanded, j, k \in DOMAIN quarterly_df :
           /\ quarterly_df[k].date < quarterly_df[j].date
           /\ quarterly_df[j].date <= expanded[i].date
           /\ IsNa(quarterly_df[j].cols["metric"])
           /\ NotNa(quarterly_df[k].cols["metric"])
           /\ expanded[i].cols["metric"] = quarterly_df[k].cols["metric"]
    /\ \E i \in DOMAIN expanded :
           /\ \A j \in DOMAIN quarterly_df : expanded[i].date < quarterly_df[j].date
           /\ NotNa(expanded[i].cols["metric"])

\* C3 as stated: with at least one quarter in the table, no day is left
\* without a value in any metric column.
C3_NoDayWithoutValue ==
    (pc = "return" /\ Len(quarterly_df) >= 1) =>
        \A i \in DOMAIN expanded : \A c \in Columns(quarterly_df) :
            NotNa(expanded[i].cols[c])

\* C3 amended: no day is left without a value in a metric column that has a
\* value in at least one quarter.
C3_NoDayWithoutValueIfPresent ==
    pc = "return" =>
        \A c \in Columns(quarterly_df) :
            PresentRows(c) # {} =>
                \A i \in DOMAIN expanded : NotNa(expanded[i].cols[c])

\* C3 witness: the only quarter with a value lies after a day of the index
\* and an earlier quarter lacks the value; the day is filled.
C3_Witness ==
    /\ pc = "return"
    /\ Cardinality(PresentRows("metric")) = 1
    /\ Len(quarterly_df) >= 2
    /\ \E i \in DOMAIN expanded : \A j \in PresentRows("metric") :
           /\ expanded[i].date < quarterly_df[j].date
           /\ expanded[i].cols["metric"] = quarterly_df[j].cols["metric"]

\* C4: a table of exactly one quarter with value v gives v on every day,
\* wherever the quarter's date lies.
C4_SingleQuarterEverywhere ==
    (pc = "return" /\ Len(quarterly_df) = 1) =>
        \A c \in Columns(quarterly_df) :
            NotNa(quarterly_df[1].cols[c]) =>
                \A i \in DOMAIN expanded :
                    expanded[i].cols[c] = quarterly_df[1].cols[c]

\* C4 witness: the single quarter lies between two days of the index and is
\* no day of it; the days on both sides carry its value.
C4_Witness ==
    /\ pc = "return"
    /\ Len(quarterly_df) = 1
    /\ NotNa(quarterly_df[1].cols["metric"])
    /\ quarterly_df[1].date \notin SeqRange(daily_index)
    /\ \E i, k \in DOMAIN expanded :
           /\ expanded[i].date < quarterly_df[1].date
           /\ expanded[k].date > quarterly_df[1].date
           /\ expanded[i].cols["metric"] = quarterly_df[1].cols["metric"]
           /\ expanded[k].cols["metric"] = quarterly_df[1].cols["metric"]

\* C11: on an empty quarterly table expand_to_daily returns (it has no
\* raising outcome) a table whose index is exactly the daily index and that
\* has no column, so no value on any day and nothing filled.
C11_EmptyInputAligned ==
    (pc = "return" /\ IsEmpty(quarterly_df))
       => /\ Len(expanded) = Len(daily_index)
          /\ \A i \in DOMAIN expanded :
                 /\ expanded[i].date = daily_index[i]
                 /\ DOMAIN expanded[i].cols = {}

\* C11 witness: the empty table expanded onto the index of all four days.
C11_Witness ==
    /\ pc = "return"
    /\ quarterly_df = <<>>
    /\ Len(daily_index) = MaxDate
    /\ Len(expanded) = MaxDate
    /\ \A i \in DOMAIN expanded : expanded[i] = [date |-> i, cols |-> <<>>]

-----------------------------------------------------------------------------
(* Exact arithmetic for the floats of the derived metrics *)

RECURSIVE Gcd(_, _)
Gcd(a, b) == IF b = 0 THEN a ELSE Gcd(b, a % b)

Abs(x) == IF x < 0 THEN -x ELSE x

\* the rational n / d in lowest terms with a positive denominator (d # 0)
Rat(n, d) ==
    LET g == Gcd(Abs(n), Abs(d))
        s == IF d < 0 THEN -1 ELSE 1
    IN  <<(s * n) \div g, (s * d) \div g>>

RatMul(a, b) == Rat(a[1] * b[1], a[2] * b[2])

\* a / b for b # 0
RatDiv(a, b) == Rat(a[1] * b[2], a[2] * b[1])

RatSub(a, b) == Rat(a[1] * b[2] - b[1] * a[2], a[2] * b[2])

RatAbs(a) == <<Abs(a[1]), a[2]>>

\* a < b; +inf and -inf are <<1, 0>> and <<-1, 0>>
RatLt(a, b) == a[1] * b[2] < b[1] * a[2]

-----------------------------------------------------------------------------
(* calculate_trailing_eps *)

\* i - 3: the quarters before quarter i that its window reaches back to
WindowBack == 3

\* the 4 of 4 / count: quarters in a year
QuartersPerYear == 4

\* Series.get(key, default) on one statement column
ColGet(col, key, default) ==
    IF key \in DOMAIN col.cols THEN col.cols[key] ELSE default

\* income_stmt[date]: the statement column of a date
ColumnAt(stmt, d) == stmt[CHOOSE j \in DOMAIN stmt : stmt[j].date = d]

\* sorted(income_stmt.columns, reverse=False)
SortedColumns(stmt) ==
    LET sorted == SortValues(stmt) IN [i \in 1..Len(sorted) |-> sorted[i].date]

RECURSIVE WindowTotal(_, _, _, _, _)
\* the loop of lines 204-208 from j to i; acc is (ttm_net_income, count)
WindowTotal(stmt, columns, j, i, acc) ==
    IF j > i THEN acc
    ELSE LET net_income == ColGet(ColumnAt(stmt, columns[j]), "Net Income", Some(0))
         IN  WindowTotal(stmt, columns, j + 1, i,
                 IF NotNa(net_income)
                 THEN [ttm_net_income |-> acc.ttm_net_income + net_income[1],
                       count |-> acc.count + 1]
                 ELSE acc)

\* the mutant of TrailingEps: the sum divided by the shares with no
\* annualisation by 4 / count
TrailingEpsNotAnnualized(ttm_net_income, count, sh) ==
    RatDiv(<<ttm_net_income, 1>>, <<sh, 1>>)

\* lines 213-214: ttm_net_income * (4 / count) / shares
TrailingEps(ttm_net_income, count, sh) ==
    LET annualized_net_income ==
            RatMul(<<ttm_net_income, 1>>, RatDiv(<<QuartersPerYear, 1>>, <<count, 1>>))
    IN  RatDiv(annualized_net_income, <<sh, 1>>)

RECURSIVE TrailingRows(_, _, _, _)
\* the loop of lines 196-218 from quarter i on (i counts from 1)
TrailingRows(stmt, columns, sh, i) ==
    IF i > Len(columns) THEN <<>>
    ELSE LET start_idx == IF i - WindowBack > 1 THEN i - WindowBack ELSE 1
             total == WindowTotal(stmt, columns, start_idx, i,
                                  [ttm_net_income |-> 0, count |-> 0])
             row == [date |-> columns[i],
                     cols |-> [c \in {"TTM_EPS"} |->
                         Some(TrailingEps(total.ttm_net_income, total.count, sh))]]
         IN  (IF total.count > 0 /\ sh > 0 THEN <<row>> ELSE <<>>)
                 \o TrailingRows(stmt, columns, sh, i + 1)

\* calculate_trailing_eps(ticker), with the statement and the shares the
\* ticker gives
CalculateTrailingEps(stmt, sh) ==
    IF IsEmpty(stmt) \/ IsNa(sh) THEN <<>>
    ELSE TrailingRows(stmt, SortedColumns(stmt), sh[1], 1)

-----------------------------------------------------------------------------
(* calculate_trailing_eps on every statement and share count of the bounds *)

\* most columns (quarters) of an income statement
MaxStmtCols == 5

NetIncomeVals == {-100, 100}

NetIncomeCells == {None} \cup {Some(v) : v \in NetIncomeVals}

SharesCells == {None, Some(-100), Some(0), Some(100), Some(40000)}

\* the dates 1..n oldest first, or newest first as the provider orders them
ColumnOrders(n) ==
    {[i \in 1..n |-> i], [i \in 1..n |-> n + 1 - i]}

\* a statement with a "Net Income" row: quarter order[i] holds cells[i]
NetIncomeStatement(order, cells) ==
    [i \in DOMAIN order |->
        [date |-> order[i], cols |-> [l \in {"Net Income"} |-> cells[i]]]]

\* a statement without a "Net Income" row (its only row is "Total Revenue")
RevenueOnlyStatement(order) ==
    [i \in DOMAIN order |->
        [date |-> order[i], cols |-> [l \in {"Total Revenue"} |-> Some(100)]]]

InitTTM ==
    /\ pc = "ttm"
    /\ AlignIdle
    /\ RunIdle
    /\ LlmIdle
    /\ \E n \in 0..MaxStmtCols : \E order \in ColumnOrders(n) :
           \/ \E cells \in [1..n -> NetIncomeCells] :
                  income_stmt = NetIncomeStatement(order, cells)
           \/ income_stmt = RevenueOnlyStatement(order)
    /\ shares \in SharesCells
    /\ ttm_eps_df = <<>>
    /\ stock_df = <<>>
    /\ ttm_eps_daily = <<>>
    /\ result_df = <<>>
    /\ financials_df = <<>>
    /\ eps_df = <<>>
    /\ buyback_df = <<>>

\* process_company line 280
CalculateTrailingEpsCall ==
    /\ pc = "ttm"
    /\ ttm_eps_df' = CalculateTrailingEps(income_stmt, shares)
    /\ pc' = "expand_ttm"
    /\ UNCHANGED <<alignVars, runVars, llmVars, eps_df, buyback_df, income_stmt, shares, stock_df, ttm_eps_daily,
                   result_df, financials_df>>

NextTTM == CalculateTrailingEpsCall

SpecTTM == InitTTM /\ [][NextTTM]_vars

-----------------------------------------------------------------------------
(* Claims about calculate_trailing_eps, checked under SpecTTM *)

\* the statement's column of the i-th quarter in ascending date order; the
\* statement's dates are 1..n
Quarter(i) == income_stmt[CHOOSE j \in DOMAIN income_stmt : income_stmt[j].date = i]

\* quarter i has net-income data: the statement has the row, with a value
HasNetIncome(i) ==
    /\ "Net Income" \in DOMAIN Quarter(i).cols
    /\ NotNa(Quarter(i).cols["Net Income"])

\* the quarters max(1, i-3)..i that have net-income data
WindowWithData(i) == {j \in 1..i : j >= i - 3 /\ HasNetIncome(j)}

RECURSIVE NetIncomeSum(_)
NetIncomeSum(J) ==
    IF J = {} THEN 0
    ELSE LET j == CHOOSE j \in J : TRUE
         IN  Quarter(j).cols["Net Income"][1] + NetIncomeSum(J \ {j})

\* the TTM EPS records of quarter i in the returned table
TtmRecords(i) == {k \in DOMAIN ttm_eps_df : ttm_eps_df[k].date = i}

\* C5: for every quarter i, ascending: with count >= 1 quarters of
\* max(0,i-3)..i holding net income and shares_outstanding > 0, quarter i has
\* one TTM EPS record and it equals (sum * 4 / count) / shares; net income
\* [100,100,100,100] with 100 shares gives 4 at the fourth quarter and a lone
\* quarter of 100 gives 4.
C5_TrailingEpsValue ==
    pc = "expand_ttm" =>
        /\ \A i \in 1..Len(income_stmt) :
               LET data  == WindowWithData(i)
                   count == Cardinality(data)
               IN  (count >= 1 /\ NotNa(shares) /\ shares[1] > 0) =>
                       /\ Cardinality(TtmRecords(i)) = 1
                       /\ \A k \in TtmRecords(i) :
                              LET eps == ttm_eps_df[k].cols["TTM_EPS"][1]
                              IN  /\ eps[2] > 0
                                  /\ eps[1] * count * shares[1]
                                         = NetIncomeSum(data) * 4 * eps[2]
        /\ \A k, m \in DOMAIN ttm_eps_df : k < m => ttm_eps_df[k].date < ttm_eps_df[m].date
        /\ (/\ shares = Some(100)
            /\ Len(income_stmt) \in {1, 4}
            /\ \A i \in 1..Len(income_stmt) :
                   HasNetIncome(i) /\ Quarter(i).cols["Net Income"] = Some(100))
               => \A k \in TtmRecords(Len(income_stmt)) :
                      ttm_eps_df[k].cols["TTM_EPS"] = Some(<<4, 1>>)

\* C5 witness: five quarters given newest first; the window of the fifth
\* leaves the first out, holds a quarter without net income, and its TTM EPS
\* was computed from the three others.
C5_Witness ==
    /\ pc = "expand_ttm"
    /\ Len(income_stmt) = 5
    /\ income_stmt[1].date = 5
    /\ shares = Some(100)
    /\ HasNetIncome(1)
    /\ Cardinality(WindowWithData(5)) = 3
    /\ NetIncomeSum(WindowWithData(5)) = 300
    /\ \E k \in DOMAIN ttm_eps_df :
           ttm_eps_df[k].date = 5 /\ ttm_eps_df[k].cols["TTM_EPS"] = Some(<<4, 1>>)

\* C6: no TTM EPS record is produced for quarter i when no quarter of
\* max(0,i-3)..i has net-income data (also when the statement has no
\* net-income entry at all), or when shares_outstanding is absent or
\* non-positive.
C6_NoRecordWithoutData ==
    pc = "expand_ttm" =>
        \A i \in 1..Len(income_stmt) :
            (WindowWithData(i) = {} \/ IsNa(shares) \/ shares[1] <= 0)
                => TtmRecords(i) = {}

-----------------------------------------------------------------------------
(* process_company: the daily PER (lines 281, 284, 301-307) *)

\* line 306: a PER below this is removed
PerMin == 0

\* line 307: a PER above this is removed
PerMax == 1000

\* Series / Series on one pair of cells: a missing operand gives NaN, a zero
\* divisor gives +inf, -inf or (0 / 0) NaN
FloatDiv(a, b) ==
    IF IsNa(a) \/ IsNa(b) THEN None
    ELSE IF b[1][1] # 0 THEN Some(RatDiv(a[1], b[1]))
    ELSE IF a[1][1] > 0 THEN Some(<<1, 0>>)
    ELSE IF a[1][1] < 0 THEN Some(<<-1, 0>>)
    ELSE None

\* the mutant of ClipPER: only the negative PER removed
ClipPERLowerOnly(per) ==
    IF NotNa(per) /\ RatLt(per[1], <<PerMin, 1>>) THEN None ELSE per

\* lines 306-307: the PER below 0, then the PER above 1000, set to NaN (a
\* comparison with NaN is False)
ClipPER(per) ==
    LET lower == IF NotNa(per) /\ RatLt(per[1], <<PerMin, 1>>) THEN None ELSE per
    IN  IF NotNa(lower) /\ RatLt(<<PerMax, 1>>, lower[1]) THEN None ELSE lower

\* the cell of column c of df on date d (assignment aligns on the index)
CellOn(df, d, c) == df[CHOOSE j \in DOMAIN df : df[j].date = d].cols[c]

\* a price as a float
PriceCell(p) == Some(<<p, 1>>)

\* lines 302-307 on result_df, the copy of stock_df with the columns merged
\* so far
DailyPER(result, ttm_daily) ==
    IF ~IsEmpty(ttm_daily) /\ "TTM_EPS" \in Columns(ttm_daily)
    THEN [i \in DOMAIN result |->
            LET eps == CellOn(ttm_daily, result[i].date, "TTM_EPS")
                per == FloatDiv(result[i].cols["price"], eps)
            IN  [date |-> result[i].date,
                 cols |-> [c \in DOMAIN result[i].cols \cup {"TTM_EPS", "PER"} |->
                     IF c = "TTM_EPS" THEN eps
                     ELSE IF c = "PER" THEN ClipPER(per)
                     ELSE result[i].cols[c]]]]
    ELSE result

\* stock_df.index
IndexOf(df) == [i \in 1..Len(df) |-> df[i].date]

-----------------------------------------------------------------------------
(* the daily PER on every statement, share count and price table of the
   bounds *)

\* most quarters of the statements the PER is computed from
MaxPerQuarters == 2

\* most days of the price table
MaxDays == 2

PriceVals == {0, 10}

PerSharesCells == {None, Some(100), Some(40000), Some(80000)}

\* ascending sequences of at most n dates
DayLists(n) == {SetToSortedSeq(S) : S \in {T \in SUBSET Dates : Cardinality(T) <= n}}

\* the dates of days, oldest first or newest first
DateOrders(days) ==
    {days, [i \in DOMAIN days |-> days[Len(days) + 1 - i]]}

\* get_daily_stock_data's table: ascending days with their close prices
StockTable(days, prices) ==
    [i \in DOMAIN days |->
        [date |-> days[i], cols |-> [c \in {"price"} |-> PriceCell(prices[i])]]]

\* the statement has a "Net Income" row and at most MaxPerQuarters quarters
\* on any dates; the price table is not empty (line 260)
InitPER ==
    /\ pc = "ttm"
    /\ AlignIdle
    /\ RunIdle
    /\ LlmIdle
    /\ \E days \in DayLists(MaxPerQuarters) : \E order \in DateOrders(days) :
           \E cells \in [DOMAIN days -> {Some(v) : v \in NetIncomeVals}] :
               income_stmt = NetIncomeStatement(order, cells)
    /\ shares \in PerSharesCells
    /\ \E days \in DayLists(MaxDays) \ {<<>>} : \E prices \in [DOMAIN days -> PriceVals] :
           stock_df = StockTable(days, prices)
    /\ ttm_eps_df = <<>>
    /\ ttm_eps_daily = <<>>
    /\ result_df = <<>>
    /\ financials_df = <<>>
    /\ eps_df = <<>>
    /\ buyback_df = <<>>

\* process_company line 281
ExpandTtmCall ==
    /\ pc = "expand_ttm"
    /\ ttm_eps_daily' = ExpandToDaily(ttm_eps_df, IndexOf(stock_df))
    /\ pc' = "merge_per"
    /\ UNCHANGED <<alignVars, runVars, llmVars, eps_df, buyback_df, income_stmt, shares, ttm_eps_df, stock_df,
                   result_df, financials_df>>

\* process_company lines 284, 301-307
DailyPerStep ==
    /\ pc = "merge_per"
    /\ result_df' = DailyPER(stock_df, ttm_eps_daily)
    /\ pc' = "done"
    /\ UNCHANGED <<alignVars, runVars, llmVars, eps_df, buyback_df, income_stmt, shares, ttm_eps_df, stock_df,
                   ttm_eps_daily, financials_df>>

NextPER ==
    \/ CalculateTrailingEpsCall
    \/ ExpandTtmCall
    \/ DailyPerStep

SpecPER == InitPER /\ [][NextPER]_vars

-----------------------------------------------------------------------------
(* Claims about the daily PER, checked under SpecPER *)

\* price(d) / TTM_EPS(d) lies in [0, 1000], for the price p and the TTM EPS
\* e = <<n, m>> of a day
RatioInRange(p, e) ==
    /\ e[1] # 0
    /\ p * e[2] * e[1] >= 0
    /\ IF e[1] > 0 THEN p * e[2] <= 1000 * e[1] ELSE p * e[2] >= 1000 * e[1]

\* C7: on every day of the output the PER is price / TTM EPS, with the TTM
\* EPS aligned to the day, when that ratio lies in [0, 1000], and no value
\* otherwise (a negative ratio, a ratio above 1000, a zero TTM EPS); so every
\* populated PER cell lies in [0, 1000].
C7_PerClipped ==
    (pc = "done" /\ ~IsEmpty(ttm_eps_daily)) =>
        /\ Len(result_df) = Len(stock_df)
        /\ \A i \in DOMAIN result_df :
               LET p   == stock_df[i].cols["price"][1][1]
                   e   == ttm_eps_daily[i].cols["TTM_EPS"][1]
                   per == result_df[i].cols["PER"]
               IN  /\ result_df[i].date = stock_df[i].date
                   /\ ttm_eps_daily[i].date = stock_df[i].date
                   /\ IF RatioInRange(p, e)
                      THEN /\ NotNa(per)
                           /\ per[1][2] > 0
                           /\ per[1][1] * e[1] = p * e[2] * per[1][2]
                      ELSE IsNa(per)
                   /\ NotNa(per) =>
                          (0 <= per[1][1] /\ per[1][1] <= 1000 * per[1][2])

\* C7 witness: one day's PER is price / TTM EPS = 10 / 4, another day's
\* ratio has a zero TTM EPS and is left without value.
C7_Witness ==
    /\ pc = "done"
    /\ "PER" \in Columns(result_df)
    /\ \E i, k \in DOMAIN result_df :
           /\ result_df[i].cols["TTM_EPS"] = Some(<<4, 1>>)
           /\ result_df[i].cols["PER"] = Some(<<5, 2>>)
           /\ result_df[k].cols["TTM_EPS"] = Some(<<0, 1>>)
           /\ result_df[k].cols["price"] = PriceCell(10)
           /\ IsNa(result_df[k].cols["PER"])

-----------------------------------------------------------------------------
(* get_quarterly_financials and the YoY growth of process_company *)

\* lines 81-83: `if revenue and operating_income and revenue != 0`.  A
\* missing label gives None and a zero is falsy, so no margin; a NaN is
\* truthy and the division then gives NaN, no margin either.
OperatingMargin(revenue, operating_income) ==
    IF /\ NotNa(revenue) /\ revenue[1] # 0
       /\ NotNa(operating_income) /\ operating_income[1] # 0
    THEN Some(RatMul(RatDiv(<<operating_income[1], 1>>, <<revenue[1], 1>>), <<100, 1>>))
    ELSE None

\* lines 73-91: the row built from one statement column
FinancialsRow(col) ==
    LET revenue          == ColGet(col, "Total Revenue", None)
        operating_income == ColGet(col, "Operating Income", None)
        net_income       == ColGet(col, "Net Income", None)
    IN  [date |-> col.date,
         cols |-> [c \in {"revenue", "operating_income", "operating_margin", "net_income"} |->
             IF c = "revenue" THEN revenue
             ELSE IF c = "operating_income" THEN operating_income
             ELSE IF c = "operating_margin" THEN OperatingMargin(revenue, operating_income)
             ELSE net_income]]

\* get_quarterly_financials when nothing raises: a row per statement column,
\* in the statement's column order
GetQuarterlyFinancials(stmt) ==
    IF IsEmpty(stmt) THEN <<>>
    ELSE [i \in 1..Len(stmt) |-> FinancialsRow(stmt[i])]

\* line 317: a quarter is compared with the quarter this many rows above
YoYLag == 4

\* the mutant of YoYGrowth: divided by prev, not by abs(prev)
YoYGrowthSigned(curr, prev) ==
    IF NotNa(curr) /\ NotNa(prev) /\ prev[1] # 0
    THEN Some(RatMul(RatDiv(<<curr[1] - prev[1], 1>>, <<prev[1], 1>>), <<100, 1>>))
    ELSE None

\* lines 322-327 and 331-336: ((curr - prev) / abs(prev)) * 100
YoYGrowth(curr, prev) ==
    IF NotNa(curr) /\ NotNa(prev) /\ prev[1] # 0
    THEN Some(RatMul(RatDiv(<<curr[1] - prev[1], 1>>, <<Abs(prev[1]), 1>>), <<100, 1>>))
    ELSE None

\* the mutant of WithYoY: the rows compared in the order given, not sorted
WithYoYUnsorted(fin) ==
    IF IsEmpty(fin) THEN fin
    ELSE [idx \in 1..Len(fin) |->
            [date |-> fin[idx].date,
             cols |-> [c \in DOMAIN fin[idx].cols \cup {"revenue_yoy", "net_income_yoy"} |->
                 IF c = "revenue_yoy"
                 THEN IF idx > YoYLag
                      THEN YoYGrowth(fin[idx].cols["revenue"], fin[idx - YoYLag].cols["revenue"])
                      ELSE None
                 ELSE IF c = "net_income_yoy"
                 THEN IF idx > YoYLag
                      THEN YoYGrowth(fin[idx].cols["net_income"], fin[idx - YoYLag].cols["net_income"])
                      ELSE None
                 ELSE fin[idx].cols[c]]]]

\* lines 311-336: financials_df sorted by date, with the two growth columns
WithYoY(fin) ==
    IF IsEmpty(fin) THEN fin
    ELSE LET sorted == SortValues(fin)
         IN  [idx \in 1..Len(sorted) |->
                [date |-> sorted[idx].date,
                 cols |-> [c \in DOMAIN sorted[idx].cols \cup {"revenue_yoy", "net_income_yoy"} |->
                     IF c = "revenue_yoy"
                     THEN IF idx > YoYLag
                          THEN YoYGrowth(sorted[idx].cols["revenue"],
                                         sorted[idx - YoYLag].cols["revenue"])
                          ELSE None
                     ELSE IF c = "net_income_yoy"
                     THEN IF idx > YoYLag
                          THEN YoYGrowth(sorted[idx].cols["net_income"],
                                         sorted[idx - YoYLag].cols["net_income"])
                          ELSE None
                     ELSE sorted[idx].cols[c]]]]

-----------------------------------------------------------------------------
(* the YoY growth on every statement of the bounds *)

\* a quarter's total revenue, net income and operating income
QuarterPairs ==
    {<<Some(100), Some(100), Some(50)>>, <<Some(150), Some(-100), Some(0)>>,
     <<Some(0), None, Some(50)>>, <<None, Some(0), Some(50)>>,
     <<Some(-100), Some(150), None>>}

\* a statement with the rows "Total Revenue", "Net Income" and "Operating
\* Income"
RevenueStatement(order, pairs) ==
    [i \in DOMAIN order |->
        [date |-> order[i],
         cols |-> [l \in {"Total Revenue", "Net Income", "Operating Income"} |->
                      IF l = "Total Revenue" THEN pairs[i][1]
                      ELSE IF l = "Net Income" THEN pairs[i][2]
                      ELSE pairs[i][3]]]]

InitYoY ==
    /\ pc = "financials"
    /\ AlignIdle
    /\ RunIdle
    /\ LlmIdle
    /\ \E n \in 0..MaxStmtCols : \E order \in ColumnOrders(n) :
           \E pairs \in [1..n -> QuarterPairs] :
               income_stmt = RevenueStatement(order, pairs)
    /\ shares = <<>>
    /\ ttm_eps_df = <<>>
    /\ stock_df = <<>>
    /\ ttm_eps_daily = <<>>
    /\ result_df = <<>>
    /\ financials_df = <<>>
    /\ eps_df = <<>>
    /\ buyback_df = <<>>

\* process_company line 267
GetQuarterlyFinancialsCall ==
    /\ pc = "financials"
    /\ financials_df' = GetQuarterlyFinancials(income_stmt)
    /\ pc' = "yoy"
    /\ UNCHANGED <<alignVars, runVars, llmVars, eps_df, buyback_df, income_stmt, shares, ttm_eps_df, stock_df,
                   ttm_eps_daily, result_df>>

\* process_company lines 311-336
YoYStep ==
    /\ pc = "yoy"
    /\ financials_df' = WithYoY(financials_df)
    /\ pc' = "expand_yoy"
    /\ UNCHANGED <<alignVars, runVars, llmVars, eps_df, buyback_df, income_stmt, shares, ttm_eps_df, stock_df,
                   ttm_eps_daily, result_df>>

NextYoY ==
    \/ GetQuarterlyFinancialsCall
    \/ YoYStep

SpecYoY == InitYoY /\ [][NextYoY]_vars

-----------------------------------------------------------------------------
(* Claims about the YoY growth, checked under SpecYoY *)

\* the growth cell g is (curr - prev) / |prev| * 100 when quarter i has a
\* quarter four before it, both have the value and prev # 0; else no value
IsGrowthOf(g, i, label) ==
    LET curr == Quarter(i).cols[label]
    IN  IF /\ i >= 5
           /\ NotNa(curr)
           /\ NotNa(Quarter(i - 4).cols[label])
           /\ Quarter(i - 4).cols[label][1] # 0
        THEN LET prev == Quarter(i - 4).cols[label][1]
             IN  /\ NotNa(g)
                 /\ g[1][2] > 0
                 /\ g[1][1] * (IF prev < 0 THEN -prev ELSE prev)
                        = (curr[1] - prev) * 100 * g[1][2]
        ELSE IsNa(g)

\* C8: at quarterly resolution, for revenue and for net income alike, the
\* growth of the quarter at index i in ascending date order is
\* (curr - prev) / |prev| * 100 with prev the value four quarters before,
\* when i >= 4 (counted from 0), both values are present and prev # 0, and
\* no value otherwise.
C8_YoYGrowth ==
    pc = "expand_yoy" =>
        /\ Len(financials_df) = Len(income_stmt)
        /\ \A i \in DOMAIN financials_df :
               /\ financials_df[i].date = i
               /\ IsGrowthOf(financials_df[i].cols["revenue_yoy"], i, "Total Revenue")
               /\ IsGrowthOf(financials_df[i].cols["net_income_yoy"], i, "Net Income")

\* C8 witness: revenue [100,100,100,100,150], given newest first, has growth
\* 50 at the fifth quarter and none before; net income goes from 100 to -100,
\* growth -200.
C8_Witness ==
    /\ pc = "expand_yoy"
    /\ Len(income_stmt) = 5
    /\ income_stmt[1].date = 5
    /\ \A i \in 1..4 : Quarter(i).cols["Total Revenue"] = Some(100)
    /\ Quarter(5).cols["Total Revenue"] = Some(150)
    /\ financials_df[5].cols["revenue_yoy"] = Some(<<50, 1>>)
    /\ financials_df[5].cols["net_income_yoy"] = Some(<<-200, 1>>)
    /\ \A i \in 1..4 : IsNa(financials_df[i].cols["revenue_yoy"])

\* C17, as stated: a quarter's operating margin is operating_income /
\* revenue * 100 whenever revenue and operating income are both present and
\* revenue # 0, an operating income of 0 giving the margin 0, and is without
\* value otherwise.
C17_OperatingMargin ==
    pc \in {"yoy", "expand_yoy"} =>
        \A j \in DOMAIN income_stmt :
            LET revenue          == income_stmt[j].cols["Total Revenue"]
                operating_income == income_stmt[j].cols["Operating Income"]
                margin == CellOn(financials_df, income_stmt[j].date, "operating_margin")
            IN  IF NotNa(revenue) /\ NotNa(operating_income) /\ revenue[1] # 0
                THEN /\ NotNa(margin)
                     /\ margin[1][2] > 0
                     /\ margin[1][1] * revenue[1] = operating_income[1] * 100 * margin[1][2]
                ELSE IsNa(margin)

-----------------------------------------------------------------------------
(* process_company lines 266-363: the four tables aligned to the days and
   merged into the daily table, a group at a time (the code aligns the four
   tables first and merges them next; neither step reads what the other
   writes for another group).  The order of the columns (lines 350-358) and
   the date turned into text (lines 345-347) are left out: a table's
   columns are a set here. *)

FinancialsColumns == {"revenue", "operating_income", "operating_margin", "net_income"}

YoYColumns == {"revenue_yoy", "net_income_yoy"}

EpsColumns == {"eps_estimate", "eps_actual", "consensus", "surprise"}

BuybackColumns == {"buyback", "dividends"}

\* lines 287-299: `if not daily.empty: for col in daily.columns:
\* result_df[col] = daily[col]`, the assignment aligned on the index
MergeColumns(result, daily) ==
    IF IsEmpty(daily) THEN result
    ELSE [i \in DOMAIN result |->
            [date |-> result[i].date,
             cols |-> [c \in DOMAIN result[i].cols \cup Columns(daily) |->
                 IF c \in Columns(daily) THEN CellOn(daily, result[i].date, c)
                 ELSE result[i].cols[c]]]]

\* line 338: financials_df[[date, the two growth columns]]
YoYTable(fin) ==
    [i \in DOMAIN fin |->
        [date |-> fin[i].date, cols |-> [c \in YoYColumns |-> fin[i].cols[c]]]]

\* the mutant of YoYDaily: the growth on the days that are quarter dates
\* only, nothing filled
YoYDailyNotFilled(fin, index) ==
    IF IsEmpty(fin) THEN <<>>
    ELSE Reindex(SortValues(YoYTable(fin)), index)

\* lines 311, 338-339: yoy_daily, of the financials_df that has its growth
\* columns; nothing when financials_df is empty
YoYDaily(fin, index) ==
    IF IsEmpty(fin) THEN <<>>
    ELSE ExpandToDaily(YoYTable(fin), index)

\* lines 361-363
DropTtmEps(result) ==
    [i \in DOMAIN result |->
        [date |-> result[i].date,
         cols |-> [c \in DOMAIN result[i].cols \ {"TTM_EPS"} |-> result[i].cols[c]]]]

-----------------------------------------------------------------------------
(* the merge on the tables of the bounds *)

\* the quarters of the statements the merge is run on
MergeQuarters ==
    {<<Some(100), Some(100), Some(50)>>, <<Some(0), None, Some(50)>>}

\* get_eps_data's table for one earnings date
EpsTable ==
    <<[date |-> 2,
       cols |-> [c \in EpsColumns |->
                    IF c = "eps_estimate" THEN Some(1)
                    ELSE IF c = "eps_actual" THEN Some(2)
                    ELSE IF c = "consensus" THEN Some("above")
                    ELSE None]]>>

\* get_buyback_data's table for one quarter
BuybackTable ==
    <<[date |-> 1,
       cols |-> [c \in BuybackColumns |->
                    IF c = "buyback" THEN Some(-100) ELSE None]]>>

\* calculate_trailing_eps's table for one quarter of net income 100 and 100
\* shares
TtmTable == CalculateTrailingEps(NetIncomeStatement(<<1>>, <<Some(100)>>), Some(100))

\* the price tables: at most MaxDays days among the dates of the quarters
MergeDayLists ==
    {SetToSortedSeq(S) : S \in {T \in SUBSET (1..MaxStmtCols) :
                                   T # {} /\ Cardinality(T) <= MaxDays}}

\* every fetcher has returned: each table is empty or not, the statement has
\* at most MaxStmtCols quarters, the price table is not empty (line 260) and
\* has the close price 10 on every day
InitMerge ==
    /\ pc = "align_financials"
    /\ AlignIdle
    /\ RunIdle
    /\ LlmIdle
    /\ \E n \in 0..MaxStmtCols : \E order \in ColumnOrders(n) :
           \E pairs \in [1..n -> MergeQuarters] :
               /\ income_stmt = RevenueStatement(order, pairs)
               /\ financials_df = GetQuarterlyFinancials(income_stmt)
    /\ eps_df \in {<<>>, EpsTable}
    /\ buyback_df \in {<<>>, BuybackTable}
    /\ ttm_eps_df \in {<<>>, TtmTable}
    /\ \E days \in MergeDayLists :
           stock_df = StockTable(days, [i \in DOMAIN days |-> 10])
    /\ shares = <<>>
    /\ ttm_eps_daily = <<>>
    /\ result_df = <<>>

\* expand_to_daily(df, date column, daily_index) at position `at` of
\* process_company
AlignStep(at, df, next) ==
    /\ pc = at
    /\ expanded' = ExpandToDaily(df, IndexOf(stock_df))
    /\ pc' = next
    /\ UNCHANGED <<quarterly_df, daily_index, metricVars, runVars, llmVars>>

\* the columns of the table aligned last merged into `result`
MergeStep(at, result, next) ==
    /\ pc = at
    /\ result_df' = MergeColumns(result, expanded)
    /\ pc' = next
    /\ UNCHANGED <<alignVars, runVars, llmVars, income_stmt, shares, ttm_eps_df, stock_df,
                   ttm_eps_daily, financials_df, eps_df, buyback_df>>

\* line 268
AlignFinancialsStep == AlignStep("align_financials", financials_df, "merge_financials")

\* lines 284-289, on the copy of stock_df
MergeFinancialsStep == MergeStep("merge_financials", stock_df, "align_eps")

\* line 272
AlignEpsStep == AlignStep("align_eps", eps_df, "merge_eps")

\* lines 291-294
MergeEpsStep == MergeStep("merge_eps", result_df, "align_buyback")

\* line 276
AlignBuybackStep == AlignStep("align_buyback", buyback_df, "merge_buyback")

\* lines 296-299
MergeBuybackStep == MergeStep("merge_buyback", result_df, "align_ttm")

\* line 281
AlignTtmStep ==
    /\ pc = "align_ttm"
    /\ ttm_eps_daily' = ExpandToDaily(ttm_eps_df, IndexOf(stock_df))
    /\ pc' = "merge_ttm"
    /\ UNCHANGED <<alignVars, runVars, llmVars, income_stmt, shares, ttm_eps_df, stock_df,
                   result_df, financials_df, eps_df, buyback_df>>

\* lines 301-307
MergePerStep ==
    /\ pc = "merge_ttm"
    /\ result_df' = DailyPER(result_df, ttm_eps_daily)
    /\ pc' = "yoy"
    /\ UNCHANGED <<alignVars, runVars, llmVars, income_stmt, shares, ttm_eps_df, stock_df,
                   ttm_eps_daily, financials_df, eps_df, buyback_df>>

\* lines 338-339
AlignYoYStep ==
    /\ pc = "expand_yoy"
    /\ expanded' = YoYDaily(financials_df, IndexOf(stock_df))
    /\ pc' = "merge_yoy"
    /\ UNCHANGED <<quarterly_df, daily_index, metricVars, runVars, llmVars>>

\* lines 341-343 and 361-363
MergeYoYStep ==
    /\ pc = "merge_yoy"
    /\ result_df' = DropTtmEps(MergeColumns(result_df, expanded))
    /\ pc' = "output"
    /\ UNCHANGED <<alignVars, runVars, llmVars, income_stmt, shares, ttm_eps_df, stock_df,
                   ttm_eps_daily, financials_df, eps_df, buyback_df>>

NextMerge ==
    \/ AlignFinancialsStep
    \/ MergeFinancialsStep
    \/ AlignEpsStep
    \/ MergeEpsStep
    \/ AlignBuybackStep
    \/ MergeBuybackStep
    \/ AlignTtmStep
    \/ MergePerStep
    \/ YoYStep
    \/ AlignYoYStep
    \/ MergeYoYStep

SpecMerge == InitMerge /\ [][NextMerge]_vars

-----------------------------------------------------------------------------
(* Claims about the merged daily table, checked under SpecMerge *)

\* the columns a metric group gives the output, and the group's table
GroupColumns ==
    [financials |-> FinancialsColumns \cup YoYColumns,
     eps        |-> EpsColumns,
     buyback    |-> BuybackColumns,
     ttm        |-> {"PER"}]

GroupTable ==
    [financials |-> financials_df,
     eps        |-> eps_df,
     buyback    |-> buyback_df,
     ttm        |-> ttm_eps_df]

\* C12, as stated: when a group's quarterly table is empty, the daily output
\* still has the group's columns, without value on every day.
C12_EmptyGroupColumnsKept ==
    pc = "output" =>
        \A g \in DOMAIN GroupTable :
            IsEmpty(GroupTable[g]) =>
                /\ GroupColumns[g] \subseteq Columns(result_df)
                /\ \A i \in DOMAIN result_df : \A c \in GroupColumns[g] :
                       IsNa(result_df[i].cols[c])

\* the quarters of financials_df whose growth c is defined
GrowthRows(c) == {j \in DOMAIN financials_df : NotNa(financials_df[j].cols[c])}

\* the quarters of financials_df dated d or before
QuartersUpTo(d) == {j \in DOMAIN financials_df : financials_df[j].date <= d}

\* of the quarters J, not empty, the one dated last
LatestQuarter(J) ==
    CHOOSE j \in J : \A k \in J : financials_df[k].date <= financials_df[j].date

\* of the quarters J, not empty, the one dated first
EarliestQuarter(J) ==
    CHOOSE j \in J : \A k \in J : financials_df[j].date <= financials_df[k].date

\* C16, as stated: a day whose latest quarter dated on or before it has an
\* undefined growth carries no growth value in the output; a growth computed
\* for one quarter never shows on the days of a quarter whose own growth is
\* undefined.
C16_NoGrowthOnUndefinedQuarter ==
    (pc = "output" /\ ~IsEmpty(financials_df)) =>
        \A i \in DOMAIN result_df : \A c \in YoYColumns :
            LET before == QuartersUpTo(result_df[i].date)
            IN  (before # {} /\ IsNa(financials_df[LatestQuarter(before)].cols[c]))
                    => IsNa(result_df[i].cols[c])

\* C16, amended: after the alignment a day carries, for each growth column,
\* the growth of the latest quarter dated on or before it among the quarters
\* whose growth is defined, else the growth of the earliest quarter whose
\* growth is defined, and no value only when no quarter has a defined growth;
\* so a defined growth also shows on the days of quarters whose own growth is
\* undefined.
C16_GrowthFilledAcrossQuarters ==
    (pc = "output" /\ ~IsEmpty(financials_df)) =>
        \A i \in DOMAIN result_df : \A c \in YoYColumns :
            LET defined == GrowthRows(c)
                before  == defined \cap QuartersUpTo(result_df[i].date)
            IN  result_df[i].cols[c] =
                    IF before # {} THEN financials_df[LatestQuarter(before)].cols[c]
                    ELSE IF defined # {} THEN financials_df[EarliestQuarter(defined)].cols[c]
                    ELSE None

\* C16 witness: five quarters, the revenue growth of the fifth is -100 and
\* the first has none (it has no quarter four before it); day 1, a day of the
\* first quarter, carries -100, and no net-income growth since no quarter has
\* one.
C16_Witness ==
    /\ pc = "output"
    /\ Len(financials_df) = 5
    /\ IsNa(financials_df[1].cols["revenue_yoy"])
    /\ financials_df[5].cols["revenue_yoy"] = Some(<<-100, 1>>)
    /\ GrowthRows("net_income_yoy") = {}
    /\ result_df[1].date = 1
    /\ result_df[1].cols["revenue_yoy"] = Some(<<-100, 1>>)
    /\ IsNa(result_df[1].cols["net_income_yoy"])

-----------------------------------------------------------------------------
(* main and process_company: the run over the companies, any step of which
   may raise.  The tables are abstracted to the columns they were built
   from; an exception is an outcome of the step that the environment
   chooses. *)

\* most companies main finds
MaxCompanies == 2

\* most columns (rows, for the earnings dates) of a group's source
MaxSourceCols == 2

\* the metric groups, in the order process_company fetches them
Groups == <<"financials", "eps", "buyback", "ttm">>

\* get_eps_data catches a raising row inside the loop and goes on with the
\* next (lines 114, 140-141); the other fetchers have no handler in the loop
RowHandlerContinues(g) == Groups[g] = "eps"

\* the mutant of HandlerResult: every handler returns an empty table
HandlerResultEmpty(g, res) == <<>>

\* what a fetcher returns once its handler has caught an exception:
\* pd.DataFrame(results) with the rows appended so far (lines 95-98, 145-148,
\* 177-180), but pd.DataFrame() for calculate_trailing_eps (lines 222-223)
HandlerResult(g, res) == IF Groups[g] = "ttm" THEN <<>> ELSE res

\* process_company's locals at its start
FreshLocals ==
    /\ group' = 0
    /\ n_rows' = 0
    /\ col_idx' = 0
    /\ results' = <<>>
    /\ group_result' = [g \in DOMAIN Groups |-> <<>>]
    /\ raised' = [g \in DOMAIN Groups |-> {}]

\* an exception no handler catches: it leaves process_company and main
Uncaught(step) ==
    /\ pc' = "crashed"
    /\ failed_step' = step
    /\ outcome' = [outcome EXCEPT ![company] = "raised"]
    /\ UNCHANGED <<mapped, company, group, n_rows, col_idx, results,
                   group_result, raised>>

Init ==
    /\ pc = "main"
    /\ AlignIdle
    /\ MetricIdle
    /\ LlmIdle
    /\ mapped \in UNION {[1..n -> BOOLEAN] : n \in 1..MaxCompanies}
    /\ company = 1
    /\ outcome = [c \in DOMAIN mapped |-> "pending"]
    /\ group = 0
    /\ n_rows = 0
    /\ col_idx = 0
    /\ results = <<>>
    /\ group_result = [g \in DOMAIN Groups |-> <<>>]
    /\ raised = [g \in DOMAIN Groups |-> {}]
    /\ failed_step = "none"

\* main lines 389-394, one iteration of the loop, and its end
MainLoop ==
    /\ pc = "main"
    /\ \/ /\ company <= Len(mapped)
          /\ mapped[company]
          /\ pc' = "price"
          /\ FreshLocals
          /\ UNCHANGED <<mapped, company, outcome, failed_step>>
       \/ /\ company <= Len(mapped)
          /\ ~mapped[company]
          /\ outcome' = [outcome EXCEPT ![company] = "unmapped"]
          /\ company' = company + 1
          /\ UNCHANGED <<pc, mapped, group, n_rows, col_idx, results,
                         group_result, raised, failed_step>>
       \/ /\ company > Len(mapped)
          /\ pc' = "finished"
          /\ UNCHANGED runVars
    /\ UNCHANGED <<alignVars, metricVars, llmVars>>

\* get_daily_stock_data (no handler) and process_company lines 258-264
GetDailyStockData ==
    /\ pc = "price"
    /\ \/ Uncaught("price")
       \/ /\ outcome' = [outcome EXCEPT ![company] = "no_price"]
          /\ company' = company + 1
          /\ pc' = "main"
          /\ UNCHANGED <<mapped, group, n_rows, col_idx, results,
                         group_result, raised, failed_step>>
       \/ /\ group' = 1
          /\ pc' = "fetch"
          /\ UNCHANGED <<mapped, company, outcome, n_rows, col_idx, results,
                         group_result, raised, failed_step>>
    /\ UNCHANGED <<alignVars, metricVars, llmVars>>

\* a fetcher up to its loop (lines 64-72, 104-112, 154-161, 185-194): the
\* source raises and the handler returns, or the source is empty (or None,
\* or the shares are None), or it has 1..MaxSourceCols columns
FetchSource ==
    /\ pc = "fetch"
    /\ \/ /\ raised' = [raised EXCEPT ![group] = {0}]
          /\ n_rows' = 0
          /\ col_idx' = 0
          /\ results' = <<>>
          /\ group_result' = [group_result EXCEPT ![group] = HandlerResult(group, <<>>)]
          /\ pc' = "align"
       \/ /\ UNCHANGED raised
          /\ n_rows' = 0
          /\ col_idx' = 0
          /\ results' = <<>>
          /\ group_result' = [group_result EXCEPT ![group] = <<>>]
          /\ pc' = "align"
       \/ /\ UNCHANGED raised
          /\ n_rows' \in 1..MaxSourceCols
          /\ col_idx' = 1
          /\ results' = <<>>
          /\ pc' = "loop"
          /\ UNCHANGED group_result
    /\ UNCHANGED <<mapped, company, outcome, group, failed_step>>
    /\ UNCHANGED <<alignVars, metricVars, llmVars>>

\* one iteration of a fetcher's loop (lines 73-91, 113-141, 162-173,
\* 196-218), and the return after the last (lines 98, 148, 180, 220)
FetchLoop ==
    /\ pc = "loop"
    /\ \/ /\ col_idx <= n_rows
          /\ results' = Append(results, col_idx)
          /\ col_idx' = col_idx + 1
          /\ UNCHANGED <<pc, group_result, raised>>
       \/ /\ col_idx <= n_rows
          /\ Groups[group] = "ttm"
          /\ col_idx' = col_idx + 1
          /\ UNCHANGED <<pc, results, group_result, raised>>
       \/ /\ col_idx <= n_rows
          /\ raised' = [raised EXCEPT ![group] = @ \cup {col_idx}]
          /\ IF RowHandlerContinues(group)
             THEN /\ col_idx' = col_idx + 1
                  /\ UNCHANGED <<pc, results, group_result>>
             ELSE /\ group_result' = [group_result EXCEPT
                                         ![group] = HandlerResult(group, results)]
                  /\ pc' = "align"
                  /\ UNCHANGED <<col_idx, results>>
       \/ /\ col_idx > n_rows
          /\ group_result' = [group_result EXCEPT ![group] = results]
          /\ pc' = "align"
          /\ UNCHANGED <<col_idx, results, raised>>
    /\ UNCHANGED <<mapped, company, outcome, group, n_rows, failed_step>>
    /\ UNCHANGED <<alignVars, metricVars, llmVars>>

\* process_company lines 268, 272, 276, 281: expand_to_daily on the group's
\* table, in no try block
AlignGroup ==
    /\ pc = "align"
    /\ \/ Uncaught("align")
       \/ /\ group < Len(Groups)
          /\ group' = group + 1
          /\ pc' = "fetch"
          /\ UNCHANGED <<mapped, company, outcome, n_rows, col_idx, results,
                         group_result, raised, failed_step>>
       \/ /\ group = Len(Groups)
          /\ pc' = "merge"
          /\ UNCHANGED runVars
    /\ UNCHANGED <<alignVars, metricVars, llmVars>>

\* process_company lines 283-363: the merge, the PER, the YoY growth, the
\* column order, in no try block
MergeTables ==
    /\ pc = "merge"
    /\ \/ Uncaught("merge")
       \/ /\ pc' = "write"
          /\ UNCHANGED runVars
    /\ UNCHANGED <<alignVars, metricVars, llmVars>>

\* process_company lines 365-374: to_csv, in no try block, and the return
\* to main's loop
WriteCsv ==
    /\ pc = "write"
    /\ \/ Uncaught("write")
       \/ /\ outcome' = [outcome EXCEPT ![company] = "written"]
          /\ company' = company + 1
          /\ pc' = "main"
          /\ UNCHANGED <<mapped, group, n_rows, col_idx, results,
                         group_result, raised, failed_step>>
    /\ UNCHANGED <<alignVars, metricVars, llmVars>>

Next ==
    \/ MainLoop
    \/ GetDailyStockData
    \/ FetchSource
    \/ FetchLoop
    \/ AlignGroup
    \/ MergeTables
    \/ WriteCsv

Spec == Init /\ [][Next]_vars

-----------------------------------------------------------------------------
(* Claims about the run, checked under Spec *)

\* the fetcher of group g has returned in the company run at hand
Returned(g) == g < group \/ (g = group /\ pc \notin {"fetch", "loop"})

\* the rows of the source at hand that the fetcher of group g keeps once it
\* has raised: none for the trailing EPS, every row that did not raise for
\* the EPS/consensus, the rows before the one that raised for the others
KeptRows(g) ==
    IF Groups[g] = "ttm" THEN <<>>
    ELSE IF RowHandlerContinues(g)
         THEN SetToSortedSeq({j \in 1..n_rows : j \notin raised[g]})
         ELSE SetToSortedSeq({j \in 1..n_rows : \A r \in raised[g] : j < r})

\* the steps of process_company that run in no try block
UnguardedSteps == {"price", "align", "merge", "write"}

C10_LaterCompaniesProcessed ==
    pc \in {"finished", "crashed"}
       => \A c \in DOMAIN outcome : outcome[c] # "pending"

-----------------------------------------------------------------------------
(* The LLM dispatch loop: gemini_finance.process_company lines 130-175, and
   the same loop in gemini_news.process_dataframe (lines 73-118) and
   gemini_macroeconomics.process_dataframe (lines 93-138).  The dispatching
   thread opens an executor per batch, submits the batch's calls, records
   each future as as_completed yields it, and sleeps between batches; the
   pool's workers run the calls.  The progress bar is left out. *)

\* gemini_finance.py line 22 (gemini_news.py, gemini_macroeconomics.py: 22)
BATCH_SIZE == 5

\* line 141: ThreadPoolExecutor(max_workers=BATCH_SIZE)
max_workers == BATCH_SIZE

\* most tasks of a run
MaxTasks == 6

\* the head of the answer of a call that raised (line 165), the Korean word
\* for error followed by ": "
ErrorPrefix == "oryu: "

\* the tasks of a run: task i has the date i and the text i
TaskList(n) == [i \in 1..n |-> [date |-> i, data_text |-> i]]

\* what call_gemini returns for a text
GeminiResponse(data_text) == <<"response", data_text>>

\* str(e) of the exception a call raised for a text
ExceptionText(data_text) == <<"exception", data_text>>

\* the mutant of Batch: the slice starts one task early
BatchOverlapping(idx) == {i \in DOMAIN tasks : idx <= i /\ i <= idx + BATCH_SIZE}

\* line 137: tasks[batch_idx:batch_idx + BATCH_SIZE], as positions in tasks
Batch(idx) == {i \in DOMAIN tasks : idx < i /\ i <= idx + BATCH_SIZE}

\* the calls in flight: started by a worker, neither returned nor raised
InFlight == {i \in DOMAIN status : status[i] = "running"}

\* the mutant of WorkerCanStart: a call starts whether or not it was
\* submitted and whatever the number of calls running
WorkerCanStartUnbounded(i) == status[i] \in {"waiting", "queued"}

\* the pool runs a submitted call when fewer than max_workers calls run
WorkerCanStart(i) == status[i] = "queued" /\ Cardinality(InFlight) < max_workers

\* the mutant of SleepDue: a sleep after every batch
SleepAfterEveryBatch(idx) == TRUE

\* line 171: `if batch_idx + BATCH_SIZE < len(tasks)`
SleepDue(idx) == idx + BATCH_SIZE < Len(tasks)

\* lines 151-157 and 161-167: the row of task i, whose future is done
ResultRow(i) ==
    [date      |-> tasks[i].date,
     data_text |-> tasks[i].data_text,
     answer    |-> IF status[i] = "returned"
                   THEN GeminiResponse(tasks[i].data_text)
                   ELSE <<ErrorPrefix, ExceptionText(tasks[i].data_text)>>]

\* the mutant of ResultsAfter: no row for a call that raised
ResultsAfterReturnedOnly(i) ==
    IF status[i] = "returned" THEN Append(gemini_results, ResultRow(i))
    ELSE gemini_results

\* lines 151 and 161: results.append(row)
ResultsAfter(i) == Append(gemini_results, ResultRow(i))

\* the mutant of SuccessCountAfter: counted whatever the call did
SuccessCountAlways(i) == success_count + 1

\* line 158: success_count += 1, in the try block after future.result()
SuccessCountAfter(i) ==
    IF status[i] = "returned" THEN success_count + 1 ELSE success_count

\* line 160: error_count += 1, in the except block
ErrorCountAfter(i) ==
    IF status[i] = "raised" THEN error_count + 1 ELSE error_count

InitDispatch ==
    /\ pc = "loop"
    /\ AlignIdle
    /\ MetricIdle
    /\ RunIdle
    /\ ParseIdle
    /\ tasks \in {TaskList(n) : n \in 0..MaxTasks}
    /\ batch_idx = 0
    /\ status = [i \in DOMAIN tasks |-> "waiting"]
    /\ yielded = {}
    /\ gemini_results = <<>>
    /\ success_count = 0
    /\ error_count = 0
    /\ batches = 0
    /\ sleeps = 0
    /\ submits = [i \in DOMAIN tasks |-> 0]

\* lines 136-145: the next batch, its executor and the submit of its calls
OpenBatch ==
    /\ pc = "loop"
    /\ batch_idx < Len(tasks)
    /\ status' = [i \in DOMAIN tasks |->
                     IF i \in Batch(batch_idx) THEN "queued" ELSE status[i]]
    /\ submits' = [i \in DOMAIN tasks |->
                     IF i \in Batch(batch_idx) THEN submits[i] + 1 ELSE submits[i]]
    /\ batches' = batches + 1
    /\ pc' = "collect"
    /\ UNCHANGED <<tasks, batch_idx, yielded, gemini_results, success_count,
                   error_count, sleeps>>
    /\ UNCHANGED <<alignVars, metricVars, runVars, parseVars>>

\* line 136: range(0, len(tasks), BATCH_SIZE) is exhausted
LoopEnd ==
    /\ pc = "loop"
    /\ batch_idx >= Len(tasks)
    /\ pc' = "finished"
    /\ UNCHANGED <<alignVars, metricVars, runVars, llmVars>>

\* a worker thread of the pool starts call_gemini for task i
WorkerStart(i) ==
    /\ WorkerCanStart(i)
    /\ status' = [status EXCEPT ![i] = "running"]
    /\ UNCHANGED <<pc, tasks, batch_idx, yielded, gemini_results, success_count,
                   error_count, batches, sleeps, submits>>
    /\ UNCHANGED <<alignVars, metricVars, runVars, parseVars>>

\* call_gemini returns in its worker thread (gemini_finance.py lines 30-82)
CallReturns(i) ==
    /\ status[i] = "running"
    /\ status' = [status EXCEPT ![i] = "returned"]
    /\ UNCHANGED <<pc, tasks, batch_idx, yielded, gemini_results, success_count,
                   error_count, batches, sleeps, submits>>
    /\ UNCHANGED <<alignVars, metricVars, runVars, parseVars>>

\* call_gemini raises in its worker thread; the future keeps the exception
CallRaises(i) ==
    /\ status[i] = "running"
    /\ status' = [status EXCEPT ![i] = "raised"]
    /\ UNCHANGED <<pc, tasks, batch_idx, yielded, gemini_results, success_count,
                   error_count, batches, sleeps, submits>>
    /\ UNCHANGED <<alignVars, metricVars, runVars, parseVars>>

\* lines 147-169: as_completed yields the future of task i, which is done,
\* and the loop body records it
RecordResult(i) ==
    /\ pc = "collect"
    /\ i \in Batch(batch_idx) \ yielded
    /\ status[i] \in {"returned", "raised"}
    /\ yielded' = yielded \cup {i}
    /\ gemini_results' = ResultsAfter(i)
    /\ success_count' = SuccessCountAfter(i)
    /\ error_count' = ErrorCountAfter(i)
    /\ UNCHANGED <<pc, tasks, batch_idx, status, batches, sleeps, submits>>
    /\ UNCHANGED <<alignVars, metricVars, runVars, parseVars>>

\* as_completed is exhausted and the executor shut down (line 141's with
\* block ends); line 171 decides on the sleep
CloseBatch ==
    /\ pc = "collect"
    /\ Batch(batch_idx) \subseteq yielded
    /\ IF SleepDue(batch_idx)
       THEN pc' = "sleep" /\ UNCHANGED batch_idx
       ELSE pc' = "loop" /\ batch_idx' = batch_idx + BATCH_SIZE
    /\ UNCHANGED <<tasks, status, yielded, gemini_results, success_count,
                   error_count, batches, sleeps, submits>>
    /\ UNCHANGED <<alignVars, metricVars, runVars, parseVars>>

\* line 172: time.sleep(BATCH_DELAY), then the next round of the loop
Sleep ==
    /\ pc = "sleep"
    /\ sleeps' = sleeps + 1
    /\ batch_idx' = batch_idx + BATCH_SIZE
    /\ pc' = "loop"
    /\ UNCHANGED <<tasks, status, yielded, gemini_results, success_count,
                   error_count, batches, submits>>
    /\ UNCHANGED <<alignVars, metricVars, runVars, parseVars>>

\* the steps of the dispatching thread
DispatcherStep ==
    \/ OpenBatch
    \/ LoopEnd
    \/ \E i \in DOMAIN tasks : RecordResult(i)
    \/ CloseBatch
    \/ Sleep

\* the steps of the pool's worker threads up to the call
WorkerStep == \E i \in DOMAIN tasks : WorkerStart(i)

\* the end of a call
CallEnds == \E i \in DOMAIN tasks : CallReturns(i) \/ CallRaises(i)

NextDispatch ==
    \/ DispatcherStep
    \/ WorkerStep
    \/ CallEnds

SpecDispatch == InitDispatch /\ [][NextDispatch]_vars

\* the threads are scheduled, and every call returns or raises in the end
SpecDispatchFair ==
    /\ SpecDispatch
    /\ WF_vars(DispatcherStep)
    /\ WF_vars(WorkerStep)
    /\ WF_vars(CallEnds)

-----------------------------------------------------------------------------
(* Claims about the dispatch loop, checked under SpecDispatch and
   SpecDispatchFair *)

\* the batch of task i, counted from 1
BatchNo(i) == ((i - 1) \div BATCH_SIZE) + 1

\* the call of task i has started
Started(i) == status[i] \in {"running", "returned", "raised"}

\* ceil(n / BATCH_SIZE)
BatchCount(n) == (n + BATCH_SIZE - 1) \div BATCH_SIZE

\* the rows of the results list that carry the date and the text of task i
RowsOf(i) ==
    {r \in DOMAIN gemini_results :
        /\ gemini_results[r].date = tasks[i].date
        /\ gemini_results[r].data_text = tasks[i].data_text}

\* C13: at every moment at most BATCH_SIZE = 5 call_gemini calls are in
\* flight, for any number of tasks.
C13_AtMostBatchSizeInFlight == Cardinality(InFlight) <= BATCH_SIZE

\* C13 witness: six tasks, the five calls of the first batch all in flight
\* and the sixth not submitted.
C13_Witness ==
    /\ Len(tasks) = 6
    /\ InFlight = 1..5
    /\ status[6] = "waiting"

\* C14: batches are sequential and separated by the delay: a call of a batch
\* has started only when every call of the batches before is done and
\* recorded and the sleeps before its batch have happened; there is one sleep
\* between two consecutive batches and none after the last.
C14_BatchesSequentialWithDelay ==
    /\ \A i \in DOMAIN tasks :
           Started(i) =>
               /\ \A j \in DOMAIN tasks :
                      BatchNo(j) < BatchNo(i)
                          => /\ status[j] \in {"returned", "raised"}
                             /\ j \in yielded
                             /\ RowsOf(j) # {}
               /\ sleeps >= BatchNo(i) - 1
               /\ batches >= BatchNo(i)
    /\ sleeps = IF batches = 0 THEN 0
                ELSE IF pc = "loop" /\ batch_idx < Len(tasks) THEN batches
                ELSE batches - 1
    /\ pc = "finished" => sleeps = IF Len(tasks) = 0 THEN 0 ELSE BatchCount(Len(tasks)) - 1

\* C14 witness: six tasks, the first batch done and recorded, one sleep
\* made, the call of the second batch in flight.
C14_Witness ==
    /\ Len(tasks) = 6
    /\ 1..5 \subseteq yielded
    /\ sleeps = 1
    /\ batches = 2
    /\ status[6] = "running"

\* C15: every task recorded has exactly one row, with its own date and text
\* and the response of its call or, if the call raised, an answer that
\* starts with the error prefix; the rows are those of the tasks recorded and
\* no other, so a call that raises takes no row away and changes none; at the
\* end every task is recorded.
C15_OneRowPerTask ==
    /\ Len(gemini_results) = Cardinality(yielded)
    /\ \A i \in DOMAIN tasks :
           IF i \in yielded
           THEN /\ Cardinality(RowsOf(i)) = 1
                /\ \A r \in RowsOf(i) :
                       IF status[i] = "returned"
                       THEN gemini_results[r].answer = GeminiResponse(tasks[i].data_text)
                       ELSE /\ status[i] = "raised"
                            /\ gemini_results[r].answer[1] = ErrorPrefix
                            /\ gemini_results[r].answer[2] = ExceptionText(tasks[i].data_text)
           ELSE RowsOf(i) = {}
    /\ pc = "finished" => yielded = DOMAIN tasks

\* C15 witness: the run of six tasks is over; the call of task 2 raised
\* and was the first of its batch to be recorded, the call of task 1
\* returned and was recorded after it, and the call of task 6 raised.
C15_Witness ==
    /\ pc = "finished"
    /\ Len(tasks) = 6
    /\ gemini_results[1].date = 2
    /\ gemini_results[1].answer[1] = ErrorPrefix
    /\ gemini_results[2].date = 1
    /\ gemini_results[2].answer = GeminiResponse(1)
    /\ status[6] = "raised"

C19_TerminatesAfterCeilBatches ==
    /\ <>(pc = "finished")
    /\ [](pc = "finished" =>
            /\ batches = BatchCount(Len(tasks))
            /\ Len(tasks) = 0 => (batches = 0 /\ sleeps = 0)
            /\ \A i \in DOMAIN tasks : submits[i] = 1)
    /\ [](\A i \in DOMAIN tasks : submits[i] <= 1)

\* C19 witness: a run of six tasks is over after two batches and one sleep,
\* each task submitted once.
C19_Witness ==
    /\ pc = "finished"
    /\ Len(tasks) = 6
    /\ sleeps = 1
    /\ batches = 2
    /\ \A i \in DOMAIN tasks : submits[i] = 1

-----------------------------------------------------------------------------
(* gemini_call.py: extract_json_from_response and parse_json_output.  A
   response text is a sequence of tokens: the opening fence ```json, the
   closing fence ```, a run of prose, or the text of one JSON document.  A
   JSON value is a record: its tag, the items of a list, and for an object
   the string of its 'function_code' field, if it has the field. *)

\* most tokens of a response text
MaxTokens == 3

\* line 47: the string returned when the parse fails
ParseError == "Error: Failed to parse the generated code. Please try again."

JsonScalar(tag) == [tag |-> tag, items |-> <<>>, code |-> None]

JsonObject(code) == [tag |-> "object", items |-> <<>>, code |-> code]

JsonList(items) == [tag |-> "list", items |-> items, code |-> None]

\* the JSON documents of the texts
JsonValues ==
    {JsonObject(Some("code")), JsonObject(None),
     JsonScalar("number"), JsonScalar("string"), JsonScalar("null"),
     JsonList(<<>>),
     JsonList(<<JsonObject(Some("code"))>>),
     JsonList(<<JsonObject(Some("code")), JsonObject(None)>>),
     JsonList(<<JsonObject(None)>>),
     JsonList(<<JsonScalar("number")>>)}

Tokens ==
    {[t |-> m, v |-> JsonScalar("null")] : m \in {"fence", "fence_end", "prose"}}
        \cup {[t |-> "json", v |-> v] : v \in JsonValues}

\* the response texts of at most max tokens
ResponseTexts(max) == UNION {[1..n -> Tokens] : n \in 0..max}

\* group(1) of the match that starts at the fence at position `at`: the lazy
\* (.*?) is the last item of the pattern, so it takes the fewest characters
\* with which the pattern matches, which is none
LazyGroup(text, at) == SubSeq(text, at + 1, at)

\* extract_json_from_response, lines 27-35
ExtractJsonFromResponse(text) ==
    IF \E i \in DOMAIN text : text[i].t = "fence"
    THEN LazyGroup(text, CHOOSE i \in DOMAIN text :
                             /\ text[i].t = "fence"
                             /\ \A j \in 1..(i - 1) : text[j].t # "fence")
    ELSE text

\* json.loads: the value of a text that is one JSON document, else
\* JSONDecodeError
JsonLoads(text) ==
    IF Len(text) = 1 /\ text[1].t = "json"
    THEN [ok |-> TRUE, value |-> text[1].v]
    ELSE [ok |-> FALSE, value |-> JsonScalar("null")]

Returns(value) == [kind |-> "return", value |-> value]

Raises(exception) == [kind |-> "raise", value |-> exception]

\* function_data['function_code'], lines 45-47: KeyError is caught, the
\* TypeError of a subscript on a value that is no object is not
FunctionCode(function_data) ==
    IF function_data.tag = "object"
    THEN IF NotNa(function_data.code) THEN Returns(function_data.code[1])
         ELSE Returns(ParseError)
    ELSE Raises("TypeError")

\* parse_json_output, lines 37-47
ParseJsonOutput(text) ==
    LET loaded == JsonLoads(ExtractJsonFromResponse(text))
    IN  IF ~loaded.ok THEN Returns(ParseError)
        ELSE IF loaded.value.tag = "list"
             THEN IF loaded.value.items = <<>> THEN Returns(ParseError)
                  ELSE FunctionCode(loaded.value.items[1])
             ELSE FunctionCode(loaded.value)

InitParse ==
    /\ pc = "parse"
    /\ AlignIdle
    /\ MetricIdle
    /\ RunIdle
    /\ DispatchIdle
    /\ response_text \in ResponseTexts(MaxTokens)
    /\ parse_outcome = <<>>

\* generate_function line 61: parse_json_output(response.text)
ParseJsonOutputCall ==
    /\ pc = "parse"
    /\ parse_outcome' = ParseJsonOutput(response_text)
    /\ pc' = "parsed"
    /\ UNCHANGED <<alignVars, metricVars, runVars, dispatchVars, response_text>>

NextParse == ParseJsonOutputCall

SpecParse == InitParse /\ [][NextParse]_vars

-----------------------------------------------------------------------------
(* Claim about parse_json_output, checked under SpecParse *)

\* the text is one JSON document, bare or between the fences
IsPayloadText(text) ==
    \/ Len(text) = 1 /\ text[1].t = "json"
    \/ /\ Len(text) = 3
       /\ text[1].t = "fence"
       /\ text[2].t = "json"
       /\ text[3].t = "fence_end"

\* the document of such a text
PayloadOf(text) == IF Len(text) = 1 THEN text[1].v ELSE text[2].v

\* the value is an object with the 'function_code' field
HasFunctionCode(value) == value.tag = "object" /\ NotNa(value.code)

\* C20, as stated: parse_json_output never raises; it returns the
\* 'function_code' field when the payload, bare or inside a json fence, is
\* an object with the field or a list whose first element is such an object,
\* and the fixed error string for every other text.
C20_ParseTotal ==
    pc = "parsed" =>
        /\ parse_outcome.kind = "return"
        /\ IF IsPayloadText(response_text)
              /\ HasFunctionCode(PayloadOf(response_text))
           THEN parse_outcome.value = PayloadOf(response_text).code[1]
           ELSE IF /\ IsPayloadText(response_text)
                   /\ PayloadOf(response_text).tag = "list"
                   /\ PayloadOf(response_text).items # <<>>
                   /\ HasFunctionCode(PayloadOf(response_text).items[1])
           THEN parse_outcome.value = PayloadOf(response_text).items[1].code[1]
           ELSE parse_outcome.value = ParseError

====
